---- MODULE Spec2Model ----
(***************************************************************************)
(* A model of micrograd: the scalar autograd engine (micrograd/engine.py)  *)
(* and the neuron / layer / MLP glue built on it (micrograd/nn.py).        *)
(*                                                                         *)
(* A Value is a record of the sequence `nodes`; its identity (id(self),    *)
(* which __hash__ returns) is its index.  Numbers are integers: the leaf   *)
(* values, exponents and alphas are drawn from integer sets, on which the  *)
(* arithmetic of the code is exact.                                        *)
(***************************************************************************)
EXTENDS Integers, Sequences, FiniteSets, TLC

VARIABLES
  nodes,    \* every Value constructed so far, in construction order
  params,   \* the Values returned by Module.parameters()
  hist,     \* one record per backward call: its root, its topo, the nodes
            \* whose _backward it invoked, the grads at the call and at its end
  last,     \* the latest call that returned a Value: function, arguments,
            \* result
  err,      \* the exception the latest call raised ("" when it returned)
  mlp       \* the network constructed by nn.MLP: its layers of neurons

vars == <<nodes, params, hist, last, err, mlp>>

-----------------------------------------------------------------------------
(* Bounds of the model *)

\* nodes of a graph, backward calls of a run
MaxNodes == 4
MaxPasses == 1
\* operations applied to given leaves, and the largest |data| they may reach
MaxOps == 3
MaxAbs == 10
\* operations and backward calls of a run with zero_grad
MaxZeroOps == 2
MaxZeroPasses == 2
\* nodes of a graph of reflected operations
MaxReflectNodes == 5
\* layers of an MLP, neurons of a layer and inputs of a neuron
MaxLayers == 2
MaxWidth == 2
\* nodes the calls of neurons construct
MaxNeuronNodes == 7

\* Value(data) leaves, exponents of x ** p, alphas of leaky_relu
Vals == {0, 2}
Exps == {0, 2}
Alphas == {2}

-----------------------------------------------------------------------------
(* Operands: a Value (by identity) or a raw Python number *)

Node(i) == [kind |-> "node", v |-> i]
Raw(c) == [kind |-> "raw", v |-> c]
NoArg == [kind |-> "none", v |-> 0]

\* isinstance(other, Value)
IsValue(other) == other.kind = "node"

RECURSIVE IntPow(_, _)
\* b ** e for an integer e >= 0 (0 ** 0 is 1, as in Python)
IntPow(b, e) == IF e <= 0 THEN 1 ELSE b * IntPow(b, e - 1)

\* set(_children): the members of a tuple of nodes
SetOf(children) == {children[i] : i \in 1..Len(children)}

\* Value.__init__: grad 0.0, _prev = set(_children); `args` are the original
\* references the _backward closure captures, `k` the constant it captures
Value(data, children, op, k) ==
  [data |-> data, grad |-> 0, op |-> op, args |-> children,
   prev |-> SetOf(children), k |-> k]

\* the node a call returned: the one constructed last
Out(ns) == Len(ns)

\* other if isinstance(other, Value) else Value(other)
Promote(ns, other) ==
  IF IsValue(other) THEN ns ELSE Append(ns, Value(other.v, <<>>, "", 0))

PromotedId(ns, other) == IF IsValue(other) THEN other.v ELSE Len(ns) + 1

\* Value.__add__
AddOp(ns, self, other) ==
  LET ns1 == Promote(ns, other)
      o == PromotedId(ns, other)
  IN Append(ns1, Value(ns1[self].data + ns1[o].data, <<self, o>>, "+", 0))

\* Value.__radd__
RAddOp(ns, self, other) == AddOp(ns, self, other)

\* Value.__mul__
MulOp(ns, self, other) ==
  LET ns1 == Promote(ns, other)
      o == PromotedId(ns, other)
  IN Append(ns1, Value(ns1[self].data * ns1[o].data, <<self, o>>, "*", 0))

\* Value.__rmul__
RMulOp(ns, self, other) == MulOp(ns, self, other)

\* __pow__ without its assertion
PowAcceptsAny(other) == TRUE

\* the isinstance(other, (int, float)) of the assertion of Value.__pow__
PowAccepts(other) == other.kind = "raw"

\* the exponent __pow__ computes with
ExpOf(ns, other) == IF other.kind = "raw" THEN other.v ELSE ns[other.v].data

\* Value.__pow__, past its assertion
PowOp(ns, self, other) ==
  LET p == ExpOf(ns, other)
  IN Append(ns, Value(IntPow(ns[self].data, p), <<self>>, "**", p))

\* Value.__neg__
NegOp(ns, self) == MulOp(ns, self, Raw(-1))

\* -other, for a Value or a raw number: the graph after it and the operand
NegOther(ns, other) ==
  IF IsValue(other)
    THEN LET ns1 == NegOp(ns, other.v) IN [ns |-> ns1, arg |-> Node(Out(ns1))]
    ELSE [ns |-> ns, arg |-> Raw(-other.v)]

\* Value.__sub__
SubOp(ns, self, other) ==
  LET n == NegOther(ns, other) IN AddOp(n.ns, self, n.arg)

\* __rsub__ with the operands the wrong way round: self - other
RSubSwapped(ns, self, other) == SubOp(ns, self, other)

\* Value.__rsub__: other - self, for a raw number other
RSubOp(ns, self, other) ==
  LET ns1 == NegOp(ns, self)
  IN RAddOp(ns1, Out(ns1), other)

\* Value.relu
ReluOp(ns, self) ==
  Append(ns, Value(IF ns[self].data < 0 THEN 0 ELSE ns[self].data,
                   <<self>>, "ReLU", 0))

\* Value.leaky_relu
LeakyReluOp(ns, self, alpha) ==
  Append(ns, Value(IF ns[self].data > 0 THEN ns[self].data
                                        ELSE alpha * ns[self].data,
                   <<self>>, "LeakyReLU", alpha))

-----------------------------------------------------------------------------
(* The propagation rules: the _backward closure of each operation *)

\* x.grad = d: the gradient set outright
Overwrite(ns, x, d) == [ns EXCEPT ![x].grad = d]

\* x.data += d: the wrong field
AccumulateData(ns, x, d) == [ns EXCEPT ![x].data = @ + d]

\* x.grad += d
Accumulate(ns, x, d) == [ns EXCEPT ![x].grad = @ + d]

\* _backward of __add__ with = for +=
AddRuleOverwrite(ns, out) ==
  LET self == ns[out].args[1]
      other == ns[out].args[2]
      ns1 == [ns EXCEPT ![self].grad = 1 * ns[out].grad]
  IN [ns1 EXCEPT ![other].grad = 1 * ns1[out].grad]

\* _backward of __add__
AddRule(ns, out) ==
  LET self == ns[out].args[1]
      other == ns[out].args[2]
      ns1 == Accumulate(ns, self, 1 * ns[out].grad)
  IN Accumulate(ns1, other, 1 * ns1[out].grad)

\* _backward of __mul__
MulRule(ns, out) ==
  LET self == ns[out].args[1]
      other == ns[out].args[2]
      ns1 == Accumulate(ns, self, ns[other].data * ns[out].grad)
  IN Accumulate(ns1, other, ns1[self].data * ns1[out].grad)

\* self.data ** (other - 1) raises ZeroDivisionError for 0 ** -1
PowRuleRaises(ns, out) ==
  ns[ns[out].args[1]].data = 0 /\ ns[out].k - 1 < 0

\* _backward of __pow__ (for other = 0 and self.data # 0 the product is 0)
PowRule(ns, out) ==
  LET self == ns[out].args[1]
      other == ns[out].k
  IN Accumulate(ns, self,
       IF other = 0 THEN 0
       ELSE other * IntPow(ns[self].data, other - 1) * ns[out].grad)

\* (out.data > 0) as a number
Truth(b) == IF b THEN 1 ELSE 0

\* _backward of relu
ReluRule(ns, out) ==
  Accumulate(ns, ns[out].args[1], Truth(ns[out].data > 0) * ns[out].grad)

\* _backward of leaky_relu
LeakyReluRule(ns, out) ==
  Accumulate(ns, ns[out].args[1],
             (IF ns[out].data > 0 THEN 1 ELSE ns[out].k) * ns[out].grad)

\* whether node._backward() raises
RuleRaises(ns, n) == ns[n].op = "**" /\ PowRuleRaises(ns, n)

\* node._backward(): the rule bound at construction (lambda: None for a leaf)
RunRule(ns, n) ==
  CASE ns[n].op = "+" -> AddRule(ns, n)
    [] ns[n].op = "*" -> MulRule(ns, n)
    [] ns[n].op = "**" -> PowRule(ns, n)
    [] ns[n].op = "ReLU" -> ReluRule(ns, n)
    [] ns[n].op = "LeakyReLU" -> LeakyReluRule(ns, n)
    [] OTHER -> ns

-----------------------------------------------------------------------------
(* build_topo: the depth-first post-order inside Value.backward.  The loop *)
(* `for child in v._prev` iterates a set, in an order the identities       *)
(* decide: `flip` picks, per node, one of the orders.                      *)

RECURSIVE SortedSeq(_)
SortedSeq(S) ==
  IF S = {} THEN <<>>
  ELSE LET m == CHOOSE x \in S : \A y \in S : x <= y
       IN <<m>> \o SortedSeq(S \ {m})

Reverse(s) == [i \in 1..Len(s) |-> s[Len(s) + 1 - i]]

\* the order in which `for child in v._prev` yields the children
ChildOrder(ns, v, flip) ==
  IF flip[v] THEN Reverse(SortedSeq(ns[v].prev)) ELSE SortedSeq(ns[v].prev)

RECURSIVE build_topo(_, _, _, _)
RECURSIVE VisitChildren(_, _, _, _)

\* build_topo appending v before its children
build_topo_preorder(ns, v, st, flip) ==
  IF v \in st.visited THEN st
  ELSE VisitChildren(ns, ChildOrder(ns, v, flip),
                     [st EXCEPT !.visited = @ \cup {v}, !.topo = Append(@, v)],
                     flip)

\* build_topo(v) of Value.backward; st holds visited and topo
build_topo(ns, v, st, flip) ==
  IF v \in st.visited THEN st
  ELSE LET st1 == [st EXCEPT !.visited = @ \cup {v}]
           st2 == VisitChildren(ns, ChildOrder(ns, v, flip), st1, flip)
       IN [st2 EXCEPT !.topo = Append(@, v)]

\* for child in v._prev: build_topo(child)
VisitChildren(ns, children, st, flip) ==
  IF children = <<>> THEN st
  ELSE VisitChildren(ns, Tail(children),
                     build_topo(ns, Head(children), st, flip), flip)

\* topo after build_topo(self)
TopoOf(ns, self, flip) ==
  build_topo(ns, self, [visited |-> {}, topo |-> <<>>], flip).topo

\* every order build_topo can produce: only a node with two children has two
\* iteration orders
TopoOrders(ns, self) ==
  {TopoOf(ns, self, [i \in 1..Len(ns) |-> i \in F]) :
     F \in SUBSET {i \in 1..Len(ns) : Cardinality(ns[i].prev) = 2}}

Grads(ns) == [i \in 1..Len(ns) |-> ns[i].grad]

\* self.grad += 1.0
SeedRootAccumulate(ns, self) == [ns EXCEPT ![self].grad = @ + 1]

\* self.grad = 1.0
SeedRoot(ns, self) == [ns EXCEPT ![self].grad = 1]

-----------------------------------------------------------------------------
(* State *)

NoCall == [fn |-> "", self |-> 0, other |-> NoArg, out |-> 0]

\* what a call that returned the Value `out` leaves in `last`
Ret(fn, self, other, out) ==
  [fn |-> fn, self |-> self, other |-> other, out |-> out]

Ids == 1..Len(nodes)

Init ==
  /\ nodes = <<>>
  /\ params = {}
  /\ hist = <<>>
  /\ last = NoCall
  /\ err = ""
  /\ mlp = <<>>

\* a graph-building call that returns the graph ns
Built(ns, fn, self, other) ==
  /\ nodes' = ns
  /\ last' = Ret(fn, self, other, Out(ns))
  /\ err' = ""
  /\ UNCHANGED <<params, hist, mlp>>

\* Value(v)
NewValue(v) == Built(Append(nodes, Value(v, <<>>, "", 0)), "Value", 0, Raw(v))

\* self + other
Add(self, other) == Built(AddOp(nodes, self, other), "add", self, other)

\* self * other
Mul(self, other) == Built(MulOp(nodes, self, other), "mul", self, other)

\* self ** other
Pow(self, other) ==
  IF PowAccepts(other)
    THEN Built(PowOp(nodes, self, other), "pow", self, other)
    ELSE /\ err' = "AssertionError"
         /\ UNCHANGED <<nodes, params, hist, last, mlp>>

\* -self
Neg(self) == Built(NegOp(nodes, self), "neg", self, NoArg)

\* self - other
Sub(self, other) == Built(SubOp(nodes, self, other), "sub", self, other)

\* self.relu()
Relu(self) == Built(ReluOp(nodes, self), "relu", self, NoArg)

\* self.leaky_relu(alpha)
LeakyRelu(self, alpha) ==
  Built(LeakyReluOp(nodes, self, alpha), "leaky_relu", self, Raw(alpha))

\* other + self, for a raw number other
RAdd(self, other) == Built(RAddOp(nodes, self, other), "radd", self, other)

\* other * self, for a raw number other
RMul(self, other) == Built(RMulOp(nodes, self, other), "rmul", self, other)

\* other - self, for a raw number other
RSub(self, other) == Built(RSubOp(nodes, self, other), "rsub", self, other)

RECURSIVE Loop(_, _, _)
\* for node in reversed(topo): node._backward() -- rev is what is left of
\* reversed(topo), done the nodes whose rule was invoked; an exception of a
\* rule ends the loop
Loop(ns, rev, done) ==
  IF rev = <<>> THEN [ns |-> ns, called |-> done, raised |-> ""]
  ELSE IF RuleRaises(ns, Head(rev))
    THEN [ns |-> ns, called |-> Append(done, Head(rev)),
          raised |-> "ZeroDivisionError"]
  ELSE Loop(RunRule(ns, Head(rev)), Tail(rev), Append(done, Head(rev)))

\* Value.backward with topo as build_topo(self) left it
BackwardOp(ns, self, order) == Loop(SeedRoot(ns, self), Reverse(order), <<>>)

\* self.backward()
Backward(self) ==
  \E order \in TopoOrders(nodes, self) :
    LET r == BackwardOp(nodes, self, order) IN
    /\ nodes' = r.ns
    /\ hist' = Append(hist, [root |-> self, size |-> Len(nodes),
                              start |-> Grads(nodes), topo |-> order,
                              called |-> r.called, end |-> Grads(r.ns),
                              raised |-> r.raised])
    /\ err' = r.raised
    /\ UNCHANGED <<params, last, mlp>>

\* Module.zero_grad: p.grad = 0.0 for p in self.parameters()
ZeroGradOp(ns, ps) ==
  [i \in 1..Len(ns) |-> IF i \in ps THEN [ns[i] EXCEPT !.grad = 0] ELSE ns[i]]

\* module.zero_grad()
ZeroGrad ==
  /\ nodes' = ZeroGradOp(nodes, params)
  /\ err' = ""
  /\ UNCHANGED <<params, hist, last, mlp>>

-----------------------------------------------------------------------------
(* The engine in general: any sequence of constructions, operations and    *)
(* backward calls, within MaxNodes nodes and MaxPasses backward calls      *)

Fits == Len(nodes') <= MaxNodes /\ Len(hist') <= MaxPasses

Next ==
  \/ \E v \in Vals : NewValue(v) /\ Fits
  \/ \E i \in Ids, j \in Ids : Add(i, Node(j)) /\ Fits
  \/ \E i \in Ids, j \in Ids : Mul(i, Node(j)) /\ Fits
  \/ \E i \in Ids, p \in Exps : Pow(i, Raw(p)) /\ Fits
  \/ \E i \in Ids : Neg(i) /\ Fits
  \/ \E i \in Ids, j \in Ids : Sub(i, Node(j)) /\ Fits
  \/ \E i \in Ids : Relu(i) /\ Fits
  \/ \E i \in Ids, a \in Alphas : LeakyRelu(i, a) /\ Fits
  \/ \E r \in Ids : Backward(r) /\ Fits

Spec == Init /\ [][Next]_vars

-----------------------------------------------------------------------------
(* x ** p with a number and with a node as the exponent *)

NextPow ==
  \/ \E v \in Vals : NewValue(v) /\ Fits
  \/ \E i \in Ids, p \in Exps : Pow(i, Raw(p)) /\ Fits
  \/ \E i \in Ids, j \in Ids : Pow(i, Node(j)) /\ Fits
  \/ \E i \in Ids, j \in Ids : Mul(i, Node(j)) /\ Fits
  \/ \E r \in Ids : Backward(r) /\ Fits

SpecPow == Init /\ [][NextPow]_vars

-----------------------------------------------------------------------------
(* Graph notions the properties are stated with *)

RECURSIVE Reach(_, _)
\* the nodes reachable from r through operand edges (r included)
Reach(ns, r) == {r} \cup UNION {Reach(ns, c) : c \in SetOf(ns[r].args)}

\* how many times x occurs in the sequence s
Count(s, x) == Cardinality({i \in 1..Len(s) : s[i] = x})

\* the backward calls made so far
Passes == {hist[k] : k \in 1..Len(hist)}

-----------------------------------------------------------------------------
(* C1: the order topo that build_topo computes inside backward(R) holds    *)
(* every node reachable from R through operand edges exactly once and no   *)
(* other node, and every node stands at a strictly later position than     *)
(* each of its operands -- also when a node is used at several use-sites.  *)
C1_TopoOrder ==
  \A h \in Passes :
    /\ \A n \in 1..h.size :
         Count(h.topo, n) = IF n \in Reach(nodes, h.root) THEN 1 ELSE 0
    /\ \A i \in 1..Len(h.topo) :
         \A o \in SetOf(nodes[h.topo[i]].args) :
           \E j \in 1..(i - 1) : h.topo[j] = o

\* a pass over a graph such as x*x + x: a node combined with itself, whose
\* operand is an operand of the root as well
C1_Witness ==
  \E h \in Passes :
    \E m \in Reach(nodes, h.root) :
      /\ Len(nodes[m].args) = 2
      /\ nodes[m].args[1] = nodes[m].args[2]
      /\ m \in SetOf(nodes[h.root].args)
      /\ nodes[m].args[1] \in SetOf(nodes[h.root].args)

-----------------------------------------------------------------------------
(* The calls of the rules during a backward call *)

\* the rule of a node is invoked only after those of its reachable users
RulesInOrder(h) ==
  \A i \in 1..Len(h.called) :
    \A m \in Reach(nodes, h.root) :
      h.called[i] \in SetOf(nodes[m].args)
        => \E j \in 1..(i - 1) : h.called[j] = m

(* C2: during one call backward(R) the rule (_backward) of a node is       *)
(* invoked exactly once if the node is reachable from R and never if it is *)
(* not, and the rule of a node N is invoked only after the rule of every   *)
(* reachable node that has N as an operand.                                *)
C2_RulesOncePerPass ==
  \A h \in Passes :
    /\ \A n \in 1..h.size :
         Count(h.called, n) = IF n \in Reach(nodes, h.root) THEN 1 ELSE 0
    /\ RulesInOrder(h)

\* what does hold: no rule is invoked twice or out of order, and every
\* reachable node's rule is invoked in a call in which no rule raises
C2_WhenNoRuleRaises ==
  \A h \in Passes :
    /\ \A n \in 1..h.size :
         Count(h.called, n) <= IF n \in Reach(nodes, h.root) THEN 1 ELSE 0
    /\ h.raised = "" => SetOf(h.called) = Reach(nodes, h.root)
    /\ RulesInOrder(h)

-----------------------------------------------------------------------------
(* C5: x ** p with a node as p fails at the call with an AssertionError,   *)
(* constructs no result node and leaves data, grad and operands of every   *)
(* existing node unchanged; x ** p with a number as p never fails so.      *)
C5_PowNodeExponent ==
  [][ /\ \A i \in Ids, j \in Ids :
           Pow(i, Node(j)) =>
             err' = "AssertionError" /\ nodes' = nodes /\ last' = last
      /\ \A i \in Ids, p \in Exps :
           Pow(i, Raw(p)) =>
             /\ err' # "AssertionError"
             /\ Len(nodes') = Len(nodes) + 1
             /\ last'.out = Len(nodes') ]_vars

\* a node exponent was refused in a graph that holds gradients
C5_Witness ==
  /\ err = "AssertionError"
  /\ \E n \in Ids : nodes[n].op = "**" /\ nodes[n].grad # 0

-----------------------------------------------------------------------------
(* C9: nodes are immutable except for grad: no operation changes the data, *)
(* grad or operands of an existing node; backward(R) changes no node's     *)
(* data or operands, and no grad of a node that is not reachable from R.   *)
C9_NodesImmutable ==
  [][ /\ Len(nodes') >= Len(nodes)
      /\ \A i \in Ids :
           /\ nodes'[i].data = nodes[i].data
           /\ nodes'[i].prev = nodes[i].prev
           /\ nodes'[i].args = nodes[i].args
           /\ hist' = hist => nodes'[i].grad = nodes[i].grad
           /\ hist' # hist /\ i \notin Reach(nodes, hist'[Len(hist')].root)
                => nodes'[i].grad = nodes[i].grad
      /\ hist' # hist => Len(nodes') = Len(nodes) ]_vars

\* an operation was applied after a backward call that left gradients and
\* did not reach every node
C9_Witness ==
  /\ hist # <<>>
  /\ Len(nodes) > hist[1].size
  /\ \E n \in 1..hist[1].size : n \notin Reach(nodes, hist[1].root)
  /\ \E n \in Ids : n # hist[1].root /\ nodes[n].grad # 0

-----------------------------------------------------------------------------
(* Graphs of add and multiply over given integer leaves, differentiated    *)
(* once: the leaves are constructed, at most MaxOps operations applied,    *)
(* then backward is called on some node                                    *)

\* the leaves of the examples: x = 3, x = 2, and a, b, c, f
LeafInputs == {<<3>>, <<2>>, <<2, -3, 10, -2>>}

\* [Value(v) for v in vals]
LeavesOf(vals) == [i \in 1..Len(vals) |-> Value(vals[i], <<>>, "", 0)]

OpNodes(ns) == {i \in 1..Len(ns) : ns[i].op # ""}

Abs(x) == IF x < 0 THEN -x ELSE x

InitAddMul ==
  /\ \E vals \in LeafInputs : nodes = LeavesOf(vals)
  /\ params = {}
  /\ hist = <<>>
  /\ last = NoCall
  /\ err = ""
  /\ mlp = <<>>

FitsAddMul ==
  /\ Cardinality(OpNodes(nodes')) <= MaxOps
  /\ Abs(nodes'[Len(nodes')].data) <= MaxAbs

NextAddMul ==
  \/ \E i \in Ids, j \in Ids : hist = <<>> /\ Add(i, Node(j)) /\ FitsAddMul
  \/ \E i \in Ids, j \in Ids : hist = <<>> /\ Mul(i, Node(j)) /\ FitsAddMul
  \/ \E r \in Ids : hist = <<>> /\ Backward(r)

SpecAddMul == InitAddMul /\ [][NextAddMul]_vars

-----------------------------------------------------------------------------
(* The derivative of a root with respect to a node, by the chain rule      *)

RECURSIVE SumF(_, _)
\* the sum of f[x] over x in S
SumF(f, S) ==
  IF S = {} THEN 0
  ELSE LET x == CHOOSE y \in S : TRUE IN f[x] + SumF(f, S \ {x})

\* d m / d n through the operand edges from m to n, one term per use-site
\* of n in m: 1 for an operand of +, the other operand's data for *
LocalDeriv(ns, m, n) ==
  LET a == ns[m].args IN
  CASE ns[m].op = "+" -> Truth(a[1] = n) + Truth(a[2] = n)
    [] ns[m].op = "*" -> Truth(a[1] = n) * ns[a[2]].data
                         + Truth(a[2] = n) * ns[a[1]].data
    [] OTHER -> 0

RECURSIVE Deriv(_, _, _)
\* d R / d n: the sum over all operand paths from R to n of the product of
\* the local derivatives (operands are constructed before their users)
Deriv(ns, R, n) ==
  IF n = R THEN 1
  ELSE IF n > R THEN 0
  ELSE SumF([m \in (n + 1)..R |-> Deriv(ns, R, m) * LocalDeriv(ns, m, n)],
            (n + 1)..R)

\* the graph under r is made of leaves, + and *
AddMulOnly(ns, r) == \A n \in Reach(ns, r) : ns[n].op \in {"", "+", "*"}

\* all grads were 0 when the call was made
FromZero(h) == \A n \in 1..h.size : h.start[n] = 0

-----------------------------------------------------------------------------
\* the graph is y = x + x over x = 3
IsDouble ==
  /\ Len(nodes) = 2 /\ nodes[1].data = 3
  /\ nodes[2].op = "+" /\ nodes[2].args = <<1, 1>>

\* the graph is q = x*x + x over x = 2
IsDiamond ==
  /\ Len(nodes) = 3 /\ nodes[1].data = 2
  /\ nodes[2].op = "*" /\ nodes[2].args = <<1, 1>>
  /\ nodes[3].op = "+" /\ nodes[3].args = <<2, 1>>

\* the graph is e = a*b; d = e + c; L = d*f over a, b, c, f = 2, -3, 10, -2
IsChain ==
  /\ Len(nodes) = 7
  /\ [i \in 1..4 |-> nodes[i].data] = <<2, -3, 10, -2>>
  /\ nodes[5].op = "*" /\ nodes[5].args = <<1, 2>>
  /\ nodes[6].op = "+" /\ nodes[6].args = <<5, 3>>
  /\ nodes[7].op = "*" /\ nodes[7].args = <<6, 4>>

\* after a call from zero grads every reachable grad is the derivative
GradIsDerivative(h) ==
  FromZero(h) /\ AddMulOnly(nodes, h.root) /\ h.raised = ""
    => \A n \in Reach(nodes, h.root) :
         h.end[n] = Deriv(nodes, h.root, n)

\* the three examples, with the numbers given for them
ExamplesAsGiven(h) ==
  /\ IsDouble /\ h.root = 2 => h.end[1] = 2
  /\ IsDiamond /\ h.root = 3 => nodes[3].data = 6 /\ h.end[1] = 5
  /\ IsChain /\ h.root = 7 =>
       nodes[7].data = -8 /\ h.end = <<6, -4, -2, 4, -2, -2, 1>>

(* C3: for a graph of add and multiply over integer leaves with all grads  *)
(* 0 before the pass, after backward(R) the grad of every reachable node   *)
(* is dR/d(node), the sum over the operand paths from R to the node of the *)
(* products of the local derivatives, one contribution per use-site:       *)
(* y = x + x gives x.grad = 2; q = x*x + x with x = 2 gives q.data = 6,    *)
(* x.grad = 5; L = (a*b + c)*f with a=2, b=-3, c=10, f=-2 gives            *)
(* L.data = -8 and the grads 6, -4, -2, 4 of a, b, c, f.                   *)
C3_GradIsDerivative ==
  \A h \in Passes : GradIsDerivative(h) /\ ExamplesAsGiven(h)

\* backward was called on L of the end-to-end example
C3_Witness == IsChain /\ \E h \in Passes : h.root = 7

\* backward was called on y of y = x + x
C3_WitnessDouble == IsDouble /\ \E h \in Passes : h.root = 2

\* backward was called on q of q = x*x + x
C3_WitnessDiamond == IsDiamond /\ \E h \in Passes : h.root = 3

-----------------------------------------------------------------------------
(* A module whose parameters() are leaves of the graph: operations over    *)
(* them, backward calls and Module.zero_grad in any order                  *)

\* the data of the leaves the run starts with
ZeroInputs == {<<2>>, <<2, -3>>}

InitZero ==
  /\ \E vals \in ZeroInputs :
       /\ nodes = LeavesOf(vals)
       /\ params \in SUBSET (1..Len(vals)) \ {{}}
  /\ hist = <<>>
  /\ last = NoCall
  /\ err = ""
  /\ mlp = <<>>

FitsZero ==
  /\ Cardinality(OpNodes(nodes')) <= MaxZeroOps
  /\ Len(hist') <= MaxZeroPasses

NextZero ==
  \/ \E i \in Ids, j \in Ids : Add(i, Node(j)) /\ FitsZero
  \/ \E i \in Ids, j \in Ids : Mul(i, Node(j)) /\ FitsZero
  \/ \E r \in Ids : Backward(r) /\ FitsZero
  \/ ZeroGrad

SpecZero == InitZero /\ [][NextZero]_vars

\* the call h2 was made on the root of h1, on the same graph, with the
\* grads h1 left but for those of the parameters, which are 0
Rezeroed(h1, h2) ==
  /\ h1.root = h2.root
  /\ h1.size = h2.size
  /\ h1.raised = "" /\ h2.raised = ""
  /\ \A n \in 1..h1.size :
       h2.start[n] = IF n \in params THEN 0 ELSE h1.end[n]

\* every node the call reaches below its root had grad 0 at the call
CleanBelowRoot(h) ==
  \A n \in Reach(nodes, h.root) \ {h.root} : h.start[n] = 0

-----------------------------------------------------------------------------
-----------------------------------------------------------------------------
(* C7: backward(R) overwrites the root's gradient and resets no other:     *)
(* whatever the grads before the call, R.grad = 1 when it returns, and     *)
(* every other node's grad is its grad before the call plus what the rules *)
(* of its users added (nothing, for a node R does not reach) -- so a       *)
(* second backward(R) without zeroing keeps what the first pass left.      *)
C7_SeedOverwritesRestAccumulates ==
  \A h \in Passes :
    h.raised = "" =>
      /\ h.end[h.root] = 1
      /\ \A n \in (1..h.size) \ {h.root} :
           h.end[n] = h.start[n]
             + SumF([m \in Reach(nodes, h.root) |->
                       h.end[m] * LocalDeriv(nodes, m, n)],
                    Reach(nodes, h.root))

\* a second backward(R) with no zeroing in between, R a result, which
\* added to a gradient the first pass had left
C7_Witness ==
  \E k \in 1..(Len(hist) - 1) :
    /\ hist[k].root = hist[k + 1].root
    /\ nodes[hist[k].root].op # ""
    /\ hist[k + 1].start = hist[k].end
    /\ \E n \in 1..hist[k].size :
         /\ n # hist[k].root
         /\ hist[k].end[n] # 0
         /\ hist[k + 1].end[n] # hist[k].end[n]

-----------------------------------------------------------------------------
(* Reflected and non-reflected operations with a raw number, over a leaf x *)

\* x.data of the leaf the run starts with, and the raw numbers c
ReflectVals == {-2, 3}
RawVals == {0, 5}

InitReflect ==
  /\ \E v \in ReflectVals : nodes = LeavesOf(<<v>>)
  /\ params = {}
  /\ hist = <<>>
  /\ last = NoCall
  /\ err = ""
  /\ mlp = <<>>

FitsReflect == Len(nodes') <= MaxReflectNodes /\ Len(hist') <= MaxPasses

NextReflect ==
  \/ \E i \in Ids, c \in RawVals : RAdd(i, Raw(c)) /\ FitsReflect
  \/ \E i \in Ids, c \in RawVals : Add(i, Raw(c)) /\ FitsReflect
  \/ \E i \in Ids, c \in RawVals : RMul(i, Raw(c)) /\ FitsReflect
  \/ \E i \in Ids, c \in RawVals : Mul(i, Raw(c)) /\ FitsReflect
  \/ \E i \in Ids, c \in RawVals : RSub(i, Raw(c)) /\ FitsReflect
  \/ \E c \in RawVals : NewValue(c) /\ FitsReflect
  \/ \E i \in Ids, j \in Ids : Sub(i, Node(j)) /\ FitsReflect
  \/ \E r \in Ids : Backward(r) /\ FitsReflect

SpecReflect == InitReflect /\ [][NextReflect]_vars

\* the graph with every grad 0
ZeroAll(ns) == ZeroGradOp(ns, 1..Len(ns))

\* Value(c) - x, on the graph ns
ValueSub(ns, c, x) ==
  SubOp(Append(ns, Value(c, <<>>, "", 0)), Len(ns) + 1, Node(x))

\* the non-reflected form of the latest call, applied to the same x and c
NonReflected ==
  CASE last.fn = "radd" -> AddOp(nodes, last.self, last.other)
    [] last.fn = "rmul" -> MulOp(nodes, last.self, last.other)
    [] last.fn = "rsub" -> ValueSub(nodes, last.other.v, last.self)

-----------------------------------------------------------------------------
(* C6: for every raw number c and node x, c + x has the data of x + c,     *)
(* c * x the data of x * c, c - x the data of Value(c) - x, and after      *)
(* backward on the result from zero grads x.grad is the same in the        *)
(* reflected and in the non-reflected form.                                *)
C6_ReflectedSame ==
  last.fn \in {"radd", "rmul", "rsub"} =>
    LET alt == NonReflected IN
    /\ nodes[last.out].data = alt[Out(alt)].data
    /\ \A h \in Passes :
         h.root = last.out /\ FromZero(h) /\ h.raised = "" =>
           \A order \in TopoOrders(alt, Out(alt)) :
             h.end[last.self]
               = BackwardOp(ZeroAll(alt), Out(alt), order).ns[last.self].grad

\* backward was called on the result of c - x, for c # 0
C6_Witness ==
  /\ last.fn = "rsub"
  /\ last.other.v # 0
  /\ \E h \in Passes : h.root = last.out /\ FromZero(h)

-----------------------------------------------------------------------------
(* relu and leaky_relu over a leaf a, under add and multiply               *)

\* a.data of the leaf the run starts with, and the alphas of leaky_relu
ActVals == {-3, 0, 2}
ActAlphas == {-2, 0, 3}

InitAct ==
  /\ \E v \in ActVals : nodes = LeavesOf(<<v>>)
  /\ params = {}
  /\ hist = <<>>
  /\ last = NoCall
  /\ err = ""
  /\ mlp = <<>>

NextAct ==
  \/ \E i \in Ids : Relu(i) /\ Fits
  \/ \E i \in Ids, a \in ActAlphas : LeakyRelu(i, a) /\ Fits
  \/ \E i \in Ids, j \in Ids : Add(i, Node(j)) /\ Fits
  \/ \E i \in Ids, j \in Ids : Mul(i, Node(j)) /\ Fits
  \/ \E r \in Ids : Backward(r) /\ Fits

SpecAct == InitAct /\ [][NextAct]_vars

\* the nodes the call h reaches that have a as an operand
UsersOf(h, a) == {m \in Reach(nodes, h.root) : a \in SetOf(nodes[m].args)}

-----------------------------------------------------------------------------
\* after backward on out = a.leaky_relu(alpha), a.grad is the derivative
LeakyGradIsDerivative(h) ==
  LET out == h.root
      a == nodes[out].args[1]
  IN nodes[out].op = "LeakyReLU" /\ nodes[a].op = "" /\ h.start[a] = 0
       => h.end[a] = IF nodes[a].data > 0 THEN 1 ELSE nodes[out].k

\* a negative a, used by out = a.relu() alone, gets no gradient
ReluGradIsZero(h) ==
  \A out \in Reach(nodes, h.root) :
    LET a == nodes[out].args[1] IN
    (/\ nodes[out].op = "ReLU"
     /\ nodes[a].data < 0
     /\ h.start[a] = 0
     /\ UsersOf(h, a) = {out})
      => h.end[a] = 0

(* C8: for out = a.leaky_relu(alpha) with a a leaf of grad 0 and backward  *)
(* on out, a.grad is the derivative of the forward function: 1 when        *)
(* a.data > 0 and alpha when a.data <= 0, for every a.data and alpha;      *)
(* and for out = a.relu() with a.data < 0, a.grad = 0 whatever gradient    *)
(* reaches out.                                                            *)
C8_ActivationGrad ==
  \A h \in Passes : LeakyGradIsDerivative(h) /\ ReluGradIsZero(h)

\* the part about relu alone
C8_ReluPart == \A h \in Passes : ReluGradIsZero(h)

\* the part about leaky_relu for alpha >= 0 alone
C8_LeakyNonNegativeAlpha ==
  \A h \in Passes : nodes[h.root].k >= 0 => LeakyGradIsDerivative(h)

-----------------------------------------------------------------------------
(* nn.py: Neuron, Layer and MLP over the engine                            *)

\* the draws of np.random.uniform(-1, 1) for the weights, and the raw
\* inputs x of a neuron
WeightVals == {-1, 0}
InputVals == {-1, 2}

\* the truth value Python gives a number: `if self.nonlinear`
Truthy(v) == v # 0

\* True and False, as the numbers they are
PyTrue == 1
PyFalse == 0

\* Neuron.__init__(nin, nonlin): nin weights drawn from draw, a bias
\* Value(0); the graph after it and the neuron
NeuronInit(ns, nin, nonlin, draw) ==
  LET w == [i \in 1..nin |-> Value(draw[i], <<>>, "", 0)]
      ns1 == ns \o w \o <<Value(0, <<>>, "", 0)>>
  IN [ns |-> ns1,
      neuron |-> [w |-> [i \in 1..nin |-> Len(ns) + i],
                  b |-> Len(ns) + nin + 1,
                  nonlinear |-> nonlin]]

RECURSIVE LayerNeurons(_, _, _, _, _)
\* [Neuron(nin, non) for _ in range(non)], `left` neurons still to make
LayerNeurons(ns, nin, non, left, draw) ==
  IF left = 0 THEN [ns |-> ns, neurons |-> <<>>]
  ELSE LET n == NeuronInit(ns, nin, non, draw)
           rest == LayerNeurons(n.ns, nin, non, left - 1, draw)
       IN [ns |-> rest.ns, neurons |-> <<n.neuron>> \o rest.neurons]

\* Layer.__init__(nin, non, **kwargs): kwargs is not read
LayerInit(ns, nin, non, kwargs, draw) == LayerNeurons(ns, nin, non, non, draw)

RECURSIVE MLPLayers(_, _, _, _, _)
\* [Layer(size[i], size[i+1], nonlinear = i != len(nons)-1) for i in ...],
\* from the i-th layer on (i counts from 1 here)
MLPLayers(ns, size, nons, i, draw) ==
  IF i > Len(nons) THEN [ns |-> ns, layers |-> <<>>]
  ELSE LET flag == IF i # Len(nons) THEN PyTrue ELSE PyFalse
           l == LayerInit(ns, size[i], size[i + 1], [nonlinear |-> flag], draw)
           rest == MLPLayers(l.ns, size, nons, i + 1, draw)
       IN [ns |-> rest.ns, layers |-> <<l.neurons>> \o rest.layers]

\* MLP.__init__(nin, nons)
MLPInit(ns, nin, nons, draw) == MLPLayers(ns, <<nin>> \o nons, nons, 1, draw)

RECURSIVE SeqParams(_)
\* Neuron.parameters() of each neuron of a sequence, together
SeqParams(neurons) ==
  IF neurons = <<>> THEN {}
  ELSE SetOf(Head(neurons).w) \cup {Head(neurons).b}
         \cup SeqParams(Tail(neurons))

\* MLP.parameters()
MLPParams(layers) == UNION {SeqParams(layers[i]) : i \in 1..Len(layers)}

RECURSIVE WeightedSum(_, _, _, _, _)
\* sum((wi*xi for wi, xi in zip(self.w, x)), self.b) from the i-th pair on,
\* acc the sum so far
WeightedSum(ns, neuron, x, i, acc) ==
  IF i > Len(neuron.w) \/ i > Len(x) THEN ns
  ELSE LET ns1 == MulOp(ns, neuron.w[i], Raw(x[i]))
           ns2 == AddOp(ns1, acc, Node(Out(ns1)))
       IN WeightedSum(ns2, neuron, x, i + 1, Out(ns2))

\* Neuron.__call__(x): the graph after it and the node it returns
NeuronCallOp(ns, neuron, x) ==
  LET ns1 == WeightedSum(ns, neuron, x, 1, neuron.b)
      activation == IF Len(ns1) = Len(ns) THEN neuron.b ELSE Out(ns1)
  IN IF Truthy(neuron.nonlinear)
       THEN LET ns2 == ReluOp(ns1, activation) IN [ns |-> ns2, out |-> Out(ns2)]
       ELSE [ns |-> ns1, out |-> activation]

NoMLP == <<>>

\* the sequences of length 1..MaxLayers over 1..MaxWidth
LayerSizes == UNION {[1..n -> 1..MaxWidth] : n \in 1..MaxLayers}

\* model = MLP(nin, nons)
NewMLP(nin, nons) ==
  \E draw \in [1..MaxWidth -> WeightVals] :
    LET m == MLPInit(nodes, nin, nons, draw) IN
    /\ nodes' = m.ns
    /\ mlp' = [nin |-> nin, nons |-> nons, layers |-> m.layers]
    /\ params' = MLPParams(m.layers)
    /\ err' = ""
    /\ UNCHANGED <<hist, last>>

\* model.layers[l].neurons[k](x), for a list x of raw numbers
NeuronCall(l, k, x) ==
  LET r == NeuronCallOp(nodes, mlp.layers[l][k], x) IN
  /\ nodes' = r.ns
  /\ last' = Ret("neuron", l, Raw(k), r.out)
  /\ err' = ""
  /\ UNCHANGED <<params, hist, mlp>>

NextNN ==
  \/ \E nin \in 1..MaxWidth, nons \in LayerSizes :
       mlp = NoMLP /\ NewMLP(nin, nons)
  \/ \E l \in 1..MaxLayers, k \in 1..MaxWidth :
       /\ mlp # NoMLP
       /\ l <= Len(mlp.layers) /\ k <= Len(mlp.layers[l])
       /\ \E x \in [1..Len(mlp.layers[l][k].w) -> InputVals] :
            NeuronCall(l, k, x)
       /\ Len(nodes') - Cardinality(params) <= MaxNeuronNodes

SpecNN == Init /\ [][NextNN]_vars

\* the sizes MLP.__init__ computes: size = [nin] + nons
SizeOf(m) == <<m.nin>> \o m.nons

-----------------------------------------------------------------------------
\* layer i holds nons[i] neurons of size[i] weights and a bias each
ShapeAsAsked ==
  mlp # NoMLP =>
    /\ Len(mlp.layers) = Len(mlp.nons)
    /\ \A i \in 1..Len(mlp.layers) :
         /\ Len(mlp.layers[i]) = mlp.nons[i]
         /\ \A k \in 1..Len(mlp.layers[i]) :
              /\ Len(mlp.layers[i][k].w) = SizeOf(mlp)[i]
              /\ mlp.layers[i][k].b \in params

\* the neurons of the last layer are linear, the others nonlinear
NonlinearAsAsked ==
  mlp # NoMLP =>
    \A i \in 1..Len(mlp.layers) : \A k \in 1..Len(mlp.layers[i]) :
      Truthy(mlp.layers[i][k].nonlinear) <=> i # Len(mlp.layers)

\* a neuron returns a relu node exactly when it is not of the last layer
OutputAsAsked ==
  last.fn = "neuron" =>
    (nodes[last.out].op = "ReLU" <=> last.self # Len(mlp.layers))

(* C10: in MLP(nin, nons) the neurons of every layer but the last are      *)
(* nonlinear (their output is relu of the weighted sum plus bias) and      *)
(* those of the last layer are linear (the weighted sum plus bias, no      *)
(* relu), as the nonlinear flag MLP passes to each Layer asks; layer i     *)
(* holds nons[i] neurons, each with size[i] weights and one bias.          *)
C10_LastLayerLinear == ShapeAsAsked /\ NonlinearAsAsked /\ OutputAsAsked

\* the part about the shape alone
C10_ShapePart == ShapeAsAsked

\* what the code does: every neuron is nonlinear, the last layer's too
C10_EveryNeuronNonlinear ==
  /\ mlp # NoMLP =>
       \A i \in 1..Len(mlp.layers) : \A k \in 1..Len(mlp.layers[i]) :
         Truthy(mlp.layers[i][k].nonlinear)
  /\ last.fn = "neuron" => nodes[last.out].op = "ReLU"

====
